---- MODULE Spec2Model ----
(***************************************************************************)
(* Model of driver/mfs_handler.go (moosefs-csi): the mfsHandler that maps  *)
(* volume identifiers onto paths of a mounted MooseFS tree, drives the     *)
(* quota and snapshot tools, and reconciles the mount table.               *)
(*                                                                         *)
(* Go strings are sequences of one-character strings, so that splitting,   *)
(* trimming, joining, cleaning, formatting and parsing are computed        *)
(* character by character, the way the Go library computes them.           *)
(***************************************************************************)
EXTENDS Integers, Sequences, FiniteSets, TLC

VARIABLES
    mnt,      \* the *mfsHandler built by NewMfsHandler (its six fields)
    ctor,     \* the arguments NewMfsHandler was called with: [name, num]
    fs,       \* directories that exist on the host, as cleaned absolute paths
    quota,    \* hard length limit per directory that carries one
    mounts,   \* the mount table: the set of mounted target paths
    trace,    \* the external calls the last operation issued, in order
    last,     \* the last operation: [op, args, ret, err]
    input,    \* the text under parse (quota-tool output with its make-up)
    calls     \* the BindMount call each concurrent caller is in: its position
              \* in the method, its arguments and what it has seen so far

vars == <<mnt, ctor, fs, quota, mounts, trace, last, input, calls>>

(***************************************************************************)
(* Go strings                                                              *)
(***************************************************************************)
NL == "\n"

Digits == <<"0", "1", "2", "3", "4", "5", "6", "7", "8", "9">>

IsDigit(c) == \E i \in 1..10 : Digits[i] = c

DigitVal(c) == (CHOOSE i \in 1..10 : Digits[i] = c) - 1

\* unicode.IsSpace on the characters the model uses
IsSpace(c) == c \in {" ", "\t", "\n", "\r"}

RECURSIVE Flatten(_)
Flatten(ss) == IF ss = <<>> THEN <<>> ELSE Head(ss) \o Flatten(Tail(ss))

\* strings.Join(parts, sep)
RECURSIVE JoinStr(_, _)
JoinStr(parts, sep) ==
    IF parts = <<>> THEN <<>>
    ELSE IF Len(parts) = 1 THEN parts[1]
    ELSE parts[1] \o <<sep>> \o JoinStr(Tail(parts), sep)

\* strings.Split(s, sep) for a one-character sep: always at least one piece
RECURSIVE SplitFrom(_, _, _)
SplitFrom(s, sep, cur) ==
    IF s = <<>> THEN <<cur>>
    ELSE IF Head(s) = sep THEN <<cur>> \o SplitFrom(Tail(s), sep, <<>>)
    ELSE SplitFrom(Tail(s), sep, Append(cur, Head(s)))

Split(s, sep) == SplitFrom(s, sep, <<>>)

\* strings.TrimSpace(s)
RECURSIVE TrimLeft(_)
TrimLeft(s) == IF s # <<>> /\ IsSpace(Head(s)) THEN TrimLeft(Tail(s)) ELSE s

RECURSIVE TrimRight(_)
TrimRight(s) ==
    IF s # <<>> /\ IsSpace(s[Len(s)]) THEN TrimRight(SubSeq(s, 1, Len(s) - 1)) ELSE s

TrimSpace(s) == TrimRight(TrimLeft(s))

\* strconv.FormatInt(n, 10)
RECURSIVE FormatNat(_)
FormatNat(n) ==
    IF n < 10 THEN <<Digits[n + 1]>>
    ELSE Append(FormatNat(n \div 10), Digits[(n % 10) + 1])

FormatInt(n) == IF n < 0 THEN <<"-">> \o FormatNat(-n) ELSE FormatNat(n)

\* fmt.Sprintf("%02d", n): the sign first, then zeros up to a width of two
Sprintf02d(n) ==
    LET d == FormatNat(IF n < 0 THEN -n ELSE n)
    IN  IF n < 0 THEN <<"-">> \o d
        ELSE IF Len(d) < 2 THEN <<"0">> \o d
        ELSE d

\* the decimal digits of math.MaxInt64 = 9223372036854775807
MaxInt64Digits == <<9, 2, 2, 3, 3, 7, 2, 0, 3, 6, 8, 5, 4, 7, 7, 5, 8, 0, 7>>

RECURSIVE StripZeros(_)
StripZeros(d) == IF Len(d) > 1 /\ Head(d) = "0" THEN StripZeros(Tail(d)) ELSE d

\* d (no leading zeros, as long as MaxInt64Digits) exceeds MaxInt64 + extra
RECURSIVE DigitsExceed(_, _, _)
DigitsExceed(d, m, extra) ==
    IF Len(d) = 1 THEN DigitVal(d[1]) > m[1] + extra
    ELSE IF DigitVal(d[1]) # m[1] THEN DigitVal(d[1]) > m[1]
    ELSE DigitsExceed(Tail(d), Tail(m), extra)

RECURSIVE NatValue(_, _)
NatValue(d, acc) ==
    IF d = <<>> THEN acc ELSE NatValue(Tail(d), acc * 10 + DigitVal(Head(d)))

\* strconv.ParseInt(s, 10, 64): [val, err] with err one of "nil", "syntax", "range"
ParseInt(s) ==
    IF s = <<>> THEN [val |-> 0, err |-> "syntax"]
    ELSE
        LET neg  == Head(s) = "-"
            body == IF Head(s) \in {"+", "-"} THEN Tail(s) ELSE s
        IN  IF body = <<>> \/ \E i \in 1..Len(body) : ~IsDigit(body[i])
            THEN [val |-> 0, err |-> "syntax"]
            ELSE
                LET d == StripZeros(body)
                IN  IF Len(d) > Len(MaxInt64Digits)
                       \/ (Len(d) = Len(MaxInt64Digits)
                           /\ DigitsExceed(d, MaxInt64Digits, IF neg THEN 1 ELSE 0))
                    THEN [val |-> 0, err |-> "range"]
                    ELSE [val |-> IF neg THEN -NatValue(d, 0) ELSE NatValue(d, 0),
                          err |-> "nil"]

(***************************************************************************)
(* Program constants                                                       *)
(***************************************************************************)
quotaLimitRow == 2
quotaLimitCol == 3
minQuotaCols == 5

(***************************************************************************)
(* Errors                                                                  *)
(***************************************************************************)
NoErr == [kind |-> "nil"]

(***************************************************************************)
(* parseMfsQuotaToolsOutput: [ret, err]                                    *)
(***************************************************************************)
\* mutant: the limit field is parsed without strings.TrimSpace
parseUntrimmed(output) ==
    LET lines == Split(output, NL)
    IN  IF Len(lines) <= quotaLimitRow
        THEN [ret |-> 0, err |-> [kind |-> "parse_rows", out |-> output]]
        ELSE
            LET cols == Split(lines[quotaLimitRow + 1], "|")
            IN  IF Len(cols) < minQuotaCols
                THEN [ret |-> 0, err |-> [kind |-> "parse_cols", out |-> output]]
                ELSE
                    LET s == cols[quotaLimitCol + 1]
                    IN  IF s = <<"-">> THEN [ret |-> -1, err |-> NoErr]
                        ELSE
                            LET p == ParseInt(s)
                            IN  IF p.err # "nil"
                                THEN [ret |-> 0,
                                      err |-> [kind |-> "parse_num", cause |-> p.err]]
                                ELSE [ret |-> p.val, err |-> NoErr]

parseMfsQuotaToolsOutput(output) ==
    LET lines == Split(output, NL)
    IN  IF Len(lines) <= quotaLimitRow
        THEN [ret |-> 0, err |-> [kind |-> "parse_rows", out |-> output]]
        ELSE
            LET cols == Split(lines[quotaLimitRow + 1], "|")
            IN  IF Len(cols) < minQuotaCols
                THEN [ret |-> 0, err |-> [kind |-> "parse_cols", out |-> output]]
                ELSE
                    LET s == TrimSpace(cols[quotaLimitCol + 1])
                    IN  IF s = <<"-">> THEN [ret |-> -1, err |-> NoErr]
                        ELSE
                            LET p == ParseInt(s)
                            IN  IF p.err # "nil"
                                THEN [ret |-> 0,
                                      err |-> [kind |-> "parse_num", cause |-> p.err]]
                                ELSE [ret |-> p.val, err |-> NoErr]

(***************************************************************************)
(* package path: Clean and Join                                            *)
(***************************************************************************)
\* the elements that survive path.Clean, in order: "" and "." are dropped,
\* ".." removes the element before it, is dropped at the root of a rooted
\* path and is kept at the front of a relative one
RECURSIVE CleanSegs(_, _, _)
CleanSegs(segs, rooted, kept) ==
    IF segs = <<>> THEN kept
    ELSE
        LET e == Head(segs)
        IN  IF e = <<>> \/ e = <<".">> THEN CleanSegs(Tail(segs), rooted, kept)
            ELSE IF e = <<".", ".">>
            THEN IF kept # <<>> /\ kept[Len(kept)] # <<".", ".">>
                 THEN CleanSegs(Tail(segs), rooted, SubSeq(kept, 1, Len(kept) - 1))
                 ELSE IF rooted THEN CleanSegs(Tail(segs), rooted, kept)
                 ELSE CleanSegs(Tail(segs), rooted, Append(kept, e))
            ELSE CleanSegs(Tail(segs), rooted, Append(kept, e))

\* path.Clean(p)
Clean(p) ==
    IF p = <<>> THEN <<".">>
    ELSE
        LET rooted == Head(p) = "/"
            body   == JoinStr(CleanSegs(Split(p, "/"), rooted, <<>>), "/")
        IN  IF rooted THEN <<"/">> \o body
            ELSE IF body = <<>> THEN <<".">>
            ELSE body

\* the buffer path.Join builds: empty elements are skipped until the first
\* non-empty one, every later element is appended after a "/"
RECURSIVE JoinBuf(_, _)
JoinBuf(elem, buf) ==
    IF elem = <<>> THEN buf
    ELSE IF buf = <<>> THEN JoinBuf(Tail(elem), Head(elem))
    ELSE JoinBuf(Tail(elem), buf \o <<"/">> \o Head(elem))

\* path.Join(elem...)
PathJoin(elem) == IF Flatten(elem) = <<>> THEN <<>> ELSE Clean(JoinBuf(elem, <<>>))

(***************************************************************************)
(* mfsHandler: construction and path derivation                            *)
(***************************************************************************)
fsType == "moosefs"
getQuotaCmd == "mfsgetquota"
setQuotaCmd == "mfssetquota"
createSnapshotCmd == "mfsmakesnapshot"
quotaLimitType == <<"-", "L">>
logsDirName == <<"l", "o", "g", "s">>
volumesDirName == <<"v", "o", "l", "u", "m", "e", "s">>
mountVolumesDirName == <<"m", "o", "u", "n", "t", "_">> \o volumesDirName
mntDir == <<"/", "m", "n", "t">>

\* mutant: the pair (0, 1) gets a suffix like every other pair
NewMfsHandlerNoSpecialCase(mfsmaster, mfsmaster_port, rootPath, pluginDataPath, name, num) ==
    LET numSufix ==
            IF Len(num) = 2 THEN <<"_">> \o Sprintf02d(num[1]) ELSE <<>>
    IN  [mfsmaster      |-> mfsmaster,
         mfsmaster_port |-> mfsmaster_port,
         rootPath       |-> rootPath,
         pluginDataPath |-> pluginDataPath,
         name           |-> name,
         hostMountPath  |-> PathJoin(<<mntDir, name \o numSufix>>)]

NewMfsHandler(mfsmaster, mfsmaster_port, rootPath, pluginDataPath, name, num) ==
    LET numSufix ==
            IF Len(num) = 2
            THEN IF num[1] = 0 /\ num[2] = 1 THEN <<>>
                 ELSE <<"_">> \o Sprintf02d(num[1])
            ELSE <<>>
    IN  [mfsmaster      |-> mfsmaster,
         mfsmaster_port |-> mfsmaster_port,
         rootPath       |-> rootPath,
         pluginDataPath |-> pluginDataPath,
         name           |-> name,
         hostMountPath  |-> PathJoin(<<mntDir, name \o numSufix>>)]

HostPathToVolume(volumeId) ==
    PathJoin(<<mnt.hostMountPath, mnt.pluginDataPath, volumesDirName, volumeId>>)

HostPathToMountVolume(volumeId) ==
    PathJoin(<<mnt.hostMountPath, mnt.pluginDataPath, mountVolumesDirName, volumeId>>)

MfsPathToVolume(volumeId) ==
    PathJoin(<<mnt.pluginDataPath, volumesDirName, volumeId>>)

HostPathToLogs == PathJoin(<<mnt.hostMountPath, mnt.pluginDataPath, logsDirName>>)

HostPluginDataPath == PathJoin(<<mnt.hostMountPath, mnt.pluginDataPath>>)

HostPathTo(to) == PathJoin(<<mnt.hostMountPath, to>>)

(***************************************************************************)
(* The host: package os and the mounted tree.  A world w is [fs, quota,     *)
(* mounts]; a call that the host makes fail (fault) changes nothing.       *)
(***************************************************************************)
\* q is p or lies beneath p
IsUnder(q, p) ==
    \/ q = p
    \/ /\ Len(q) > Len(p)
       /\ SubSeq(q, 1, Len(p)) = p
       /\ (p = <<"/">> \/ q[Len(p) + 1] = "/")

\* p and every directory above it
Ancestors(p) ==
    {<<"/">>, p} \cup {SubSeq(p, 1, i - 1) : i \in {j \in 2..Len(p) : p[j] = "/"}}

Parent(p) ==
    LET cuts == {j \in 2..Len(p) : p[j] = "/"}
    IN  IF cuts = {} THEN <<"/">>
        ELSE SubSeq(p, 1, (CHOOSE j \in cuts : \A k \in cuts : k <= j) - 1)

\* os.Stat(path): "nil" when path exists, ENOENT (os.IsNotExist) when it does not
OsStat(w, path, fault) ==
    IF fault THEN "EACCES" ELSE IF path \in w.fs THEN "nil" ELSE "ENOENT"

\* os.MkdirAll(path, newVolumeMode): path and its missing parents; an existing
\* directory is no error
OsMkdirAll(w, path, fault) ==
    IF fault THEN [w |-> w, err |-> "EACCES"]
    ELSE [w |-> [w EXCEPT !.fs = @ \cup Ancestors(path)], err |-> "nil"]

\* os.RemoveAll(path): path and everything beneath it (a quota goes with its
\* directory); a missing path is no error
OsRemoveAll(w, path, fault) ==
    IF fault THEN [w |-> w, err |-> "EACCES"]
    ELSE LET keep == {q \in w.fs : ~IsUnder(q, path)}
         IN  [w   |-> [w EXCEPT !.fs = keep,
                                 !.quota = [q \in DOMAIN w.quota \cap keep |-> w.quota[q]]],
              err |-> "nil"]

(***************************************************************************)
(* The MooseFS tools, run by exec.Command(...).CombinedOutput() with       *)
(* cmd.Dir = dir.  The result is [w, err, out]; err is "nil" on exit 0.    *)
(***************************************************************************)
ToolFaults == {"none", "exit", "short", "unset"}

QuotaGranule == 8

\* what mfssetquota may confirm for a request of n bytes: n itself, or n
\* rounded up to the granule
Confirmed(n, round) ==
    IF round THEN ((n + QuotaGranule - 1) \div QuotaGranule) * QuotaGranule ELSE n

\* a relative argument names a path beneath the working directory
Resolve(dir, path) == IF path # <<>> /\ Head(path) = "/" THEN path ELSE PathJoin(<<dir, path>>)

\* the report of mfsgetquota and mfssetquota: row 2 is the length row, its
\* column 3 the hard limit, "-" when none is set
Report(limit) ==
    JoinStr(<< <<"q", ":">>,
               <<"i", "|", "0", "|", "-", "|", "-", "|">>,
               <<"l", "|", "0", "|", "-", "|", " ">> \o limit \o <<" ", "|">>,
               <<"s", "|", "0", "|", "-", "|", "-", "|">>,
               <<>> >>, NL)

ShortReport == <<"q", ":">>

ToolError == <<"E", "R", "R">>

RunGetQuota(w, args, dir) ==
    LET target == Resolve(dir, args[1])
    IN  IF target \notin w.fs THEN [w |-> w, err |-> "exit status 1", out |-> ToolError]
        ELSE [w   |-> w, err |-> "nil",
              out |-> Report(IF target \in DOMAIN w.quota
                             THEN FormatInt(w.quota[target]) ELSE <<"-">>)]

RunSetQuota(w, args, dir, round) ==
    LET target == Resolve(dir, args[3])
        limit  == Confirmed(ParseInt(args[2]).val, round)
    IN  IF target \notin w.fs THEN [w |-> w, err |-> "exit status 1", out |-> ToolError]
        ELSE [w   |-> [w EXCEPT !.quota =
                         [q \in DOMAIN w.quota \cup {target} |->
                             IF q = target THEN limit ELSE w.quota[q]]],
              err |-> "nil",
              out |-> Report(FormatInt(limit))]

\* mfsmakesnapshot src dst copies the tree at src to the new directory dst
RunMakeSnapshot(w, args, dir) ==
    LET src == Resolve(dir, args[1])
        dst == Resolve(dir, args[2])
    IN  IF src \notin w.fs \/ dst \in w.fs \/ IsUnder(dst, src) \/ Parent(dst) \notin w.fs
        THEN [w |-> w, err |-> "exit status 1", out |-> ToolError]
        ELSE [w   |-> [w EXCEPT !.fs =
                         @ \cup {dst \o SubSeq(q, Len(src) + 1, Len(q)) :
                                    q \in {x \in w.fs : IsUnder(x, src)}}],
              err |-> "nil", out |-> <<>>]

\* exec.Command(cmd, args...) with cmd.Dir = dir, then CombinedOutput()
Exec(w, cmd, args, dir, fault, round) ==
    LET Output(r) ==
            IF fault = "short" /\ r.err = "nil" THEN [r EXCEPT !.out = ShortReport] ELSE r
    IN  IF fault = "exit" THEN [w |-> w, err |-> "exit status 1", out |-> ToolError]
        ELSE IF fault = "unset" THEN [w |-> w, err |-> "nil", out |-> Report(<<"-">>)]
        ELSE Output(CASE cmd = getQuotaCmd -> RunGetQuota(w, args, dir)
                      [] cmd = setQuotaCmd -> RunSetQuota(w, args, dir, round)
                      [] cmd = createSnapshotCmd -> RunMakeSnapshot(w, args, dir))

ExecCall(cmd, args, dir, r) ==
    [call |-> "exec", cmd |-> cmd, args |-> args, dir |-> dir, err |-> r.err, out |-> r.out]

(***************************************************************************)
(* mfsHandler operations on a world w: [ret, err, w, trace]                *)
(***************************************************************************)
World == [fs |-> fs, quota |-> quota, mounts |-> mounts]

FsErr(call, path, cause) == [kind |-> "fs", call |-> call, path |-> path, cause |-> cause]

\* mutant: the existence check looks at the mount-volume path
VolumeExistOfMountVolume(w, volumeId, fault) ==
    LET path == HostPathToMountVolume(volumeId)
        err  == OsStat(w, path, fault)
        tr   == <<[call |-> "Stat", path |-> path, err |-> err]>>
    IN  IF err = "nil" THEN [ret |-> TRUE, err |-> NoErr, w |-> w, trace |-> tr]
        ELSE IF err = "ENOENT" THEN [ret |-> FALSE, err |-> NoErr, w |-> w, trace |-> tr]
        ELSE [ret |-> FALSE, err |-> FsErr("Stat", path, err), w |-> w, trace |-> tr]

VolumeExist(w, volumeId, fault) ==
    LET path == HostPathToVolume(volumeId)
        err  == OsStat(w, path, fault)
        tr   == <<[call |-> "Stat", path |-> path, err |-> err]>>
    IN  IF err = "nil" THEN [ret |-> TRUE, err |-> NoErr, w |-> w, trace |-> tr]
        ELSE IF err = "ENOENT" THEN [ret |-> FALSE, err |-> NoErr, w |-> w, trace |-> tr]
        ELSE [ret |-> FALSE, err |-> FsErr("Stat", path, err), w |-> w, trace |-> tr]

\* mutant: the limit the parser returns is passed on, the sentinel included
GetQuotaReturnsSentinel(w, volumeId, fault) ==
    LET path == MfsPathToVolume(volumeId)
        Return(x, p, tr) ==
            IF x.err # "nil"
            THEN [ret |-> 0, w |-> x.w, trace |-> tr,
                  err |-> [kind |-> "tool", fn |-> "GetQuota", cmd |-> getQuotaCmd,
                           args |-> <<path>>, cause |-> x.err, out |-> x.out]]
            ELSE IF p.err # NoErr THEN [ret |-> 0, err |-> p.err, w |-> x.w, trace |-> tr]
            ELSE [ret |-> p.ret, err |-> NoErr, w |-> x.w, trace |-> tr]
        Ran(x) == Return(x, parseMfsQuotaToolsOutput(x.out),
                         <<ExecCall(getQuotaCmd, <<path>>, mnt.hostMountPath, x)>>)
    IN  Ran(Exec(w, getQuotaCmd, <<path>>, mnt.hostMountPath, fault, FALSE))

GetQuota(w, volumeId, fault) ==
    LET path == MfsPathToVolume(volumeId)
        Return(x, p, tr) ==
            IF x.err # "nil"
            THEN [ret |-> 0, w |-> x.w, trace |-> tr,
                  err |-> [kind |-> "tool", fn |-> "GetQuota", cmd |-> getQuotaCmd,
                           args |-> <<path>>, cause |-> x.err, out |-> x.out]]
            ELSE IF p.err # NoErr THEN [ret |-> 0, err |-> p.err, w |-> x.w, trace |-> tr]
            ELSE IF p.ret = -1
            THEN [ret |-> 0, w |-> x.w, trace |-> tr,
                  err |-> [kind |-> "quota_unset", fn |-> "GetQuota",
                           volumeId |-> volumeId, cmd |-> getQuotaCmd, out |-> x.out]]
            ELSE [ret |-> p.ret, err |-> NoErr, w |-> x.w, trace |-> tr]
        Ran(x) == Return(x, parseMfsQuotaToolsOutput(x.out),
                         <<ExecCall(getQuotaCmd, <<path>>, mnt.hostMountPath, x)>>)
    IN  Ran(Exec(w, getQuotaCmd, <<path>>, mnt.hostMountPath, fault, FALSE))

\* mutant: only negative sizes are rejected
SetQuotaAcceptsZero(w, volumeId, size, fault, round) ==
    LET path         == MfsPathToVolume(volumeId)
        setQuotaArgs == <<quotaLimitType, FormatInt(size), path>>
        Return(x, p, tr) ==
            IF x.err # "nil"
            THEN [ret |-> 0, w |-> x.w, trace |-> tr,
                  err |-> [kind |-> "tool", fn |-> "SetQuota", cmd |-> setQuotaCmd,
                           args |-> setQuotaArgs, cause |-> x.err, out |-> x.out]]
            ELSE IF p.err # NoErr THEN [ret |-> 0, err |-> p.err, w |-> x.w, trace |-> tr]
            ELSE IF p.ret = -1
            THEN [ret |-> 0, w |-> x.w, trace |-> tr,
                  err |-> [kind |-> "quota_unset", fn |-> "SetQuota",
                           volumeId |-> volumeId, cmd |-> setQuotaCmd, out |-> x.out]]
            ELSE [ret |-> p.ret, err |-> NoErr, w |-> x.w, trace |-> tr]
        Ran(x) == Return(x, parseMfsQuotaToolsOutput(x.out),
                         <<ExecCall(setQuotaCmd, setQuotaArgs, mnt.hostMountPath, x)>>)
    IN  IF size < 0
        THEN [ret |-> 0, w |-> w, trace |-> <<>>,
              err |-> [kind |-> "validation", msg |-> "SetQuota: size must be positive"]]
        ELSE Ran(Exec(w, setQuotaCmd, setQuotaArgs, mnt.hostMountPath, fault, round))

\* mutant: the requested size is returned in place of the confirmed limit
SetQuotaReturnsRequest(w, volumeId, size, fault, round) ==
    LET path         == MfsPathToVolume(volumeId)
        setQuotaArgs == <<quotaLimitType, FormatInt(size), path>>
        Return(x, p, tr) ==
            IF x.err # "nil"
            THEN [ret |-> 0, w |-> x.w, trace |-> tr,
                  err |-> [kind |-> "tool", fn |-> "SetQuota", cmd |-> setQuotaCmd,
                           args |-> setQuotaArgs, cause |-> x.err, out |-> x.out]]
            ELSE IF p.err # NoErr THEN [ret |-> 0, err |-> p.err, w |-> x.w, trace |-> tr]
            ELSE IF p.ret = -1
            THEN [ret |-> 0, w |-> x.w, trace |-> tr,
                  err |-> [kind |-> "quota_unset", fn |-> "SetQuota",
                           volumeId |-> volumeId, cmd |-> setQuotaCmd, out |-> x.out]]
            ELSE [ret |-> size, err |-> NoErr, w |-> x.w, trace |-> tr]
        Ran(x) == Return(x, parseMfsQuotaToolsOutput(x.out),
                         <<ExecCall(setQuotaCmd, setQuotaArgs, mnt.hostMountPath, x)>>)
    IN  IF size <= 0
        THEN [ret |-> 0, w |-> w, trace |-> <<>>,
              err |-> [kind |-> "validation", msg |-> "SetQuota: size must be positive"]]
        ELSE Ran(Exec(w, setQuotaCmd, setQuotaArgs, mnt.hostMountPath, fault, round))

SetQuota(w, volumeId, size, fault, round) ==
    LET path         == MfsPathToVolume(volumeId)
        setQuotaArgs == <<quotaLimitType, FormatInt(size), path>>
        Return(x, p, tr) ==
            IF x.err # "nil"
            THEN [ret |-> 0, w |-> x.w, trace |-> tr,
                  err |-> [kind |-> "tool", fn |-> "SetQuota", cmd |-> setQuotaCmd,
                           args |-> setQuotaArgs, cause |-> x.err, out |-> x.out]]
            ELSE IF p.err # NoErr THEN [ret |-> 0, err |-> p.err, w |-> x.w, trace |-> tr]
            ELSE IF p.ret = -1
            THEN [ret |-> 0, w |-> x.w, trace |-> tr,
                  err |-> [kind |-> "quota_unset", fn |-> "SetQuota",
                           volumeId |-> volumeId, cmd |-> setQuotaCmd, out |-> x.out]]
            ELSE [ret |-> p.ret, err |-> NoErr, w |-> x.w, trace |-> tr]
        Ran(x) == Return(x, parseMfsQuotaToolsOutput(x.out),
                         <<ExecCall(setQuotaCmd, setQuotaArgs, mnt.hostMountPath, x)>>)
    IN  IF size <= 0
        THEN [ret |-> 0, w |-> w, trace |-> <<>>,
              err |-> [kind |-> "validation", msg |-> "SetQuota: size must be positive"]]
        ELSE Ran(Exec(w, setQuotaCmd, setQuotaArgs, mnt.hostMountPath, fault, round))

\* mutant: the directory is removed again when the quota step fails
CreateVolumeRollsBack(w, volumeId, size, ioFault, fault, round) ==
    LET path == HostPathToVolume(volumeId)
        Return(q, tr) ==
            IF q.err # NoErr
            THEN [ret |-> 0, err |-> q.err, w |-> OsRemoveAll(q.w, path, FALSE).w,
                  trace |-> tr \o q.trace]
            ELSE [ret |-> q.ret, err |-> NoErr, w |-> q.w, trace |-> tr \o q.trace]
        Made(m, tr) ==
            IF m.err # "nil"
            THEN [ret |-> 0, err |-> FsErr("MkdirAll", path, m.err), w |-> m.w, trace |-> tr]
            ELSE IF size = 0 THEN [ret |-> 0, err |-> NoErr, w |-> m.w, trace |-> tr]
            ELSE Return(SetQuota(m.w, volumeId, size, fault, round), tr)
        Tried(m) == Made(m, <<[call |-> "MkdirAll", path |-> path, err |-> m.err]>>)
    IN  Tried(OsMkdirAll(w, path, ioFault))

\* mutant: the requested size is returned, not the size SetQuota acquired
CreateVolumeReturnsSize(w, volumeId, size, ioFault, fault, round) ==
    LET path == HostPathToVolume(volumeId)
        Return(q, tr) ==
            IF q.err # NoErr
            THEN [ret |-> 0, err |-> q.err, w |-> q.w, trace |-> tr \o q.trace]
            ELSE [ret |-> size, err |-> NoErr, w |-> q.w, trace |-> tr \o q.trace]
        Made(m, tr) ==
            IF m.err # "nil"
            THEN [ret |-> 0, err |-> FsErr("MkdirAll", path, m.err), w |-> m.w, trace |-> tr]
            ELSE IF size = 0 THEN [ret |-> 0, err |-> NoErr, w |-> m.w, trace |-> tr]
            ELSE Return(SetQuota(m.w, volumeId, size, fault, round), tr)
        Tried(m) == Made(m, <<[call |-> "MkdirAll", path |-> path, err |-> m.err]>>)
    IN  Tried(OsMkdirAll(w, path, ioFault))

CreateVolume(w, volumeId, size, ioFault, fault, round) ==
    LET path == HostPathToVolume(volumeId)
        Return(q, tr) ==
            IF q.err # NoErr
            THEN [ret |-> 0, err |-> q.err, w |-> q.w, trace |-> tr \o q.trace]
            ELSE [ret |-> q.ret, err |-> NoErr, w |-> q.w, trace |-> tr \o q.trace]
        Made(m, tr) ==
            IF m.err # "nil"
            THEN [ret |-> 0, err |-> FsErr("MkdirAll", path, m.err), w |-> m.w, trace |-> tr]
            ELSE IF size = 0 THEN [ret |-> 0, err |-> NoErr, w |-> m.w, trace |-> tr]
            ELSE Return(SetQuota(m.w, volumeId, size, fault, round), tr)
        Tried(m) == Made(m, <<[call |-> "MkdirAll", path |-> path, err |-> m.err]>>)
    IN  Tried(OsMkdirAll(w, path, ioFault))

\* mutant: os.Remove in place of os.RemoveAll, an error when the path is absent
DeleteVolumeByRemove(w, volumeId, ioFault) ==
    LET path == HostPathToVolume(volumeId)
        r    == IF path \in w.fs THEN OsRemoveAll(w, path, ioFault)
                ELSE [w |-> w, err |-> "ENOENT"]
        tr   == <<[call |-> "Remove", path |-> path, err |-> r.err]>>
    IN  IF r.err # "nil"
        THEN [ret |-> 0, err |-> FsErr("Remove", path, r.err), w |-> r.w, trace |-> tr]
        ELSE [ret |-> 0, err |-> NoErr, w |-> r.w, trace |-> tr]

DeleteVolume(w, volumeId, ioFault) ==
    LET path == HostPathToVolume(volumeId)
        r    == OsRemoveAll(w, path, ioFault)
        tr   == <<[call |-> "RemoveAll", path |-> path, err |-> r.err]>>
    IN  IF r.err # "nil"
        THEN [ret |-> 0, err |-> FsErr("RemoveAll", path, r.err), w |-> r.w, trace |-> tr]
        ELSE [ret |-> 0, err |-> NoErr, w |-> r.w, trace |-> tr]

CreateSnapshot(w, volumeId, snapshotId, fault, fault2) ==
    LET volPath  == HostPathToVolume(volumeId)
        snapPath == HostPathToVolume(snapshotId)
        createSnapshotArgs == <<volPath, snapPath>>
        Return(g, tr) == [ret |-> g.ret, err |-> g.err, w |-> g.w, trace |-> tr \o g.trace]
        Made(x, tr) ==
            IF x.err # "nil"
            THEN [ret |-> 0, err |-> [kind |-> "exec", cause |-> x.err], w |-> x.w,
                  trace |-> tr]
            ELSE Return(GetQuota(x.w, snapPath, fault2), tr)
        Ran(x) == Made(x, <<ExecCall(createSnapshotCmd, createSnapshotArgs,
                                     mnt.hostMountPath, x)>>)
    IN  Ran(Exec(w, createSnapshotCmd, createSnapshotArgs, mnt.hostMountPath, fault, FALSE))

(***************************************************************************)
(* Mounter (driver/mounter.go): the mount table                            *)
(***************************************************************************)
MounterErr(call) == [kind |-> "mounter", call |-> call]

\* Mounter.IsMounted(target): [ret, err]
IsMounted(w, target, fault) ==
    IF fault THEN [ret |-> FALSE, err |-> MounterErr("IsMounted")]
    ELSE [ret |-> target \in w.mounts, err |-> NoErr]

\* Mounter.Mount(source, target, fsType, options...): [w, err]
Mount(w, source, target, fstype, options, fault) ==
    IF fault THEN [w |-> w, err |-> MounterErr("Mount")]
    ELSE [w   |-> [w EXCEPT !.mounts = @ \cup {target},
                            !.fs = @ \cup Ancestors(target)],
          err |-> NoErr]

\* Mounter.UMount(target): [w, err]
UMount(w, target, fault) ==
    IF fault THEN [w |-> w, err |-> MounterErr("UMount")]
    ELSE [w |-> [w EXCEPT !.mounts = @ \ {target}], err |-> NoErr]

IsMountedCall(target, r) ==
    [call |-> "IsMounted", target |-> target, ret |-> r.ret, err |-> r.err]

MountCall(source, target, fstype, options, r) ==
    [call |-> "Mount", source |-> source, target |-> target, fstype |-> fstype,
     options |-> options, err |-> r.err]

UMountCall(target, r) == [call |-> "UMount", target |-> target, err |-> r.err]

(***************************************************************************)
(* mfsHandler mount operations: [err, w, trace]; failAt names the external *)
(* call that the host makes fail, "none" when every call succeeds          *)
(***************************************************************************)
\* mutant: the error of os.RemoveAll is dropped and the mount goes ahead
MountMfsIgnoresRemoveAll(w, failAt) ==
    LET mountSource  == mnt.mfsmaster \o <<":">> \o FormatInt(mnt.mfsmaster_port)
                            \o <<":">> \o mnt.rootPath
        mountOptions == <<>>
        target == mnt.hostMountPath
        q   == IsMounted(w, target, failAt = "IsMounted")
        t1  == <<IsMountedCall(target, q)>>
        u   == UMount(w, target, failAt = "UMount")
        w2  == IF q.ret THEN u.w ELSE w
        t2  == IF q.ret THEN t1 \o <<UMountCall(target, u)>> ELSE t1
        r   == OsRemoveAll(w2, target, failAt = "RemoveAll")
        t3  == t2 \o <<[call |-> "RemoveAll", path |-> target, err |-> r.err]>>
        m   == Mount(r.w, mountSource, target, fsType, mountOptions, failAt = "Mount")
        t4  == t3 \o <<MountCall(mountSource, target, fsType, mountOptions, m)>>
    IN  IF q.err # NoErr THEN [err |-> q.err, w |-> w, trace |-> t1]
        ELSE IF q.ret /\ u.err # NoErr THEN [err |-> u.err, w |-> u.w, trace |-> t2]
        ELSE IF m.err # NoErr THEN [err |-> m.err, w |-> m.w, trace |-> t4]
        ELSE [err |-> NoErr, w |-> m.w, trace |-> t4]

\* mutant: a target found mounted is left as it is
MountMfsKeepsMount(w, failAt) ==
    LET mountSource  == mnt.mfsmaster \o <<":">> \o FormatInt(mnt.mfsmaster_port)
                            \o <<":">> \o mnt.rootPath
        mountOptions == <<>>
        target == mnt.hostMountPath
        q   == IsMounted(w, target, failAt = "IsMounted")
        t1  == <<IsMountedCall(target, q)>>
        r   == OsRemoveAll(w, target, failAt = "RemoveAll")
        t3  == t1 \o <<[call |-> "RemoveAll", path |-> target, err |-> r.err]>>
        m   == Mount(r.w, mountSource, target, fsType, mountOptions, failAt = "Mount")
        t4  == t3 \o <<MountCall(mountSource, target, fsType, mountOptions, m)>>
    IN  IF q.err # NoErr THEN [err |-> q.err, w |-> w, trace |-> t1]
        ELSE IF q.ret THEN [err |-> NoErr, w |-> w, trace |-> t1]
        ELSE IF r.err # "nil"
        THEN [err |-> FsErr("RemoveAll", target, r.err), w |-> r.w, trace |-> t3]
        ELSE IF m.err # NoErr THEN [err |-> m.err, w |-> m.w, trace |-> t4]
        ELSE [err |-> NoErr, w |-> m.w, trace |-> t4]

MountMfs(w, failAt) ==
    LET mountSource  == mnt.mfsmaster \o <<":">> \o FormatInt(mnt.mfsmaster_port)
                            \o <<":">> \o mnt.rootPath
        mountOptions == <<>>
        target == mnt.hostMountPath
        q   == IsMounted(w, target, failAt = "IsMounted")
        t1  == <<IsMountedCall(target, q)>>
        u   == UMount(w, target, failAt = "UMount")
        w2  == IF q.ret THEN u.w ELSE w
        t2  == IF q.ret THEN t1 \o <<UMountCall(target, u)>> ELSE t1
        r   == OsRemoveAll(w2, target, failAt = "RemoveAll")
        t3  == t2 \o <<[call |-> "RemoveAll", path |-> target, err |-> r.err]>>
        m   == Mount(r.w, mountSource, target, fsType, mountOptions, failAt = "Mount")
        t4  == t3 \o <<MountCall(mountSource, target, fsType, mountOptions, m)>>
    IN  IF q.err # NoErr THEN [err |-> q.err, w |-> w, trace |-> t1]
        ELSE IF q.ret /\ u.err # NoErr THEN [err |-> u.err, w |-> u.w, trace |-> t2]
        ELSE IF r.err # "nil"
        THEN [err |-> FsErr("RemoveAll", target, r.err), w |-> r.w, trace |-> t3]
        ELSE IF m.err # NoErr THEN [err |-> m.err, w |-> m.w, trace |-> t4]
        ELSE [err |-> NoErr, w |-> m.w, trace |-> t4]

\* mutant: the answer of IsMounted is ignored
BindMountAlways(w, mfsSource, target, options, failAt) ==
    LET source == HostPathTo(mfsSource)
        q  == IsMounted(w, target, failAt = "IsMounted")
        t1 == <<IsMountedCall(target, q)>>
        m  == Mount(w, source, target, fsType, Append(options, "bind"), failAt = "Mount")
        t2 == t1 \o <<MountCall(source, target, fsType, Append(options, "bind"), m)>>
    IN  IF q.err # NoErr THEN [err |-> q.err, w |-> w, trace |-> t1]
        ELSE IF m.err # NoErr THEN [err |-> m.err, w |-> m.w, trace |-> t2]
        ELSE [err |-> NoErr, w |-> m.w, trace |-> t2]

BindMount(w, mfsSource, target, options, failAt) ==
    LET source == HostPathTo(mfsSource)
        q  == IsMounted(w, target, failAt = "IsMounted")
        t1 == <<IsMountedCall(target, q)>>
        m  == Mount(w, source, target, fsType, Append(options, "bind"), failAt = "Mount")
        t2 == t1 \o <<MountCall(source, target, fsType, Append(options, "bind"), m)>>
    IN  IF q.err # NoErr THEN [err |-> q.err, w |-> w, trace |-> t1]
        ELSE IF ~q.ret
        THEN IF m.err # NoErr THEN [err |-> m.err, w |-> m.w, trace |-> t2]
             ELSE [err |-> NoErr, w |-> m.w, trace |-> t2]
        ELSE [err |-> NoErr, w |-> w, trace |-> t1]

(***************************************************************************)
(* BindMount statement by statement, for callers that interleave: c is the *)
(* call [pc, mfsSource, target, options, failAt, err]; pc is "query"       *)
(* before mounter.IsMounted (line 266), "mount" before mounter.Mount (line *)
(* 269) and "idle" once the method has returned c.err.  No lock is taken.  *)
(***************************************************************************)
\* line 266-268 and 272-275: [c, w, call]
BindMountQuery(w, c) ==
    LET Asked(q) ==
            [c    |-> IF q.err # NoErr THEN [c EXCEPT !.pc = "idle", !.err = q.err]
                      ELSE IF ~q.ret THEN [c EXCEPT !.pc = "mount"]
                      ELSE [c EXCEPT !.pc = "idle", !.err = NoErr],
             w    |-> w,
             call |-> IsMountedCall(c.target, q)]
    IN  Asked(IsMounted(w, c.target, c.failAt = "IsMounted"))

\* mutant: Mount is issued only if the target is still not mounted
BindMountMountRechecked(w, c) ==
    LET source == HostPathTo(c.mfsSource)
        Mounted(m) ==
            [c    |-> [c EXCEPT !.pc = "idle", !.err = m.err],
             w    |-> m.w,
             call |-> MountCall(source, c.target, fsType, Append(c.options, "bind"), m)]
    IN  IF c.target \in w.mounts
        THEN [c |-> [c EXCEPT !.pc = "idle", !.err = NoErr], w |-> w,
              call |-> IsMountedCall(c.target, [ret |-> TRUE, err |-> NoErr])]
        ELSE Mounted(Mount(w, source, c.target, fsType, Append(c.options, "bind"),
                           c.failAt = "Mount"))

\* line 269-271 and 275: [c, w, call]
BindMountMount(w, c) ==
    LET source == HostPathTo(c.mfsSource)
        Mounted(m) ==
            [c    |-> [c EXCEPT !.pc = "idle", !.err = m.err],
             w    |-> m.w,
             call |-> MountCall(source, c.target, fsType, Append(c.options, "bind"), m)]
    IN  Mounted(Mount(w, source, c.target, fsType, Append(c.options, "bind"),
                      c.failAt = "Mount"))

\* mutant: the test on the answer of IsMounted is inverted
BindUMountInverted(w, target, failAt) ==
    LET q  == IsMounted(w, target, failAt = "IsMounted")
        t1 == <<IsMountedCall(target, q)>>
        u  == UMount(w, target, failAt = "UMount")
        t2 == t1 \o <<UMountCall(target, u)>>
    IN  IF q.err # NoErr THEN [err |-> q.err, w |-> w, trace |-> t1]
        ELSE IF ~q.ret
        THEN IF u.err # NoErr THEN [err |-> u.err, w |-> u.w, trace |-> t2]
             ELSE [err |-> NoErr, w |-> u.w, trace |-> t2]
        ELSE [err |-> NoErr, w |-> w, trace |-> t1]

BindUMount(w, target, failAt) ==
    LET q  == IsMounted(w, target, failAt = "IsMounted")
        t1 == <<IsMountedCall(target, q)>>
        u  == UMount(w, target, failAt = "UMount")
        t2 == t1 \o <<UMountCall(target, u)>>
    IN  IF q.err # NoErr THEN [err |-> q.err, w |-> w, trace |-> t1]
        ELSE IF q.ret
        THEN IF u.err # NoErr THEN [err |-> u.err, w |-> u.w, trace |-> t2]
             ELSE [err |-> NoErr, w |-> u.w, trace |-> t2]
        ELSE [err |-> NoErr, w |-> w, trace |-> t1]

(***************************************************************************)
(* Inputs                                                                  *)
(***************************************************************************)
MasterAddr == <<"m", "f", "s">>
RootPath == <<"/">>
PluginDataPath == <<"d", "a", "t", "a">>
HandlerName == <<"p", "v", "c", "1">>

NewHandler(c) == NewMfsHandler(MasterAddr, 9421, RootPath, PluginDataPath, c.name, c.num)

\* volume identifiers: two plain ones and the parent segment
VolumeIds == {<<"v", "1">>, <<"s", "1">>, <<".", ".">>}

Sizes == {-1, 0, 12}

NoInput == [text |-> <<>>, kinds |-> <<>>, nf |-> 0, field |-> <<>>]

\* how the tools may behave on one call: fault and whether the limit is rounded
ToolCases ==
    {[fault |-> "none", round |-> FALSE], [fault |-> "none", round |-> TRUE],
     [fault |-> "exit", round |-> FALSE], [fault |-> "short", round |-> FALSE],
     [fault |-> "unset", round |-> FALSE]}

NoTool == [fault |-> "none", round |-> FALSE]

\* the goroutines (or processes) that may be inside BindMount at a time
Callers == {"a", "b"}

\* a caller that is in no call
Idle == [pc |-> "idle"]

NoCalls == [p \in Callers |-> Idle]

\* the operation follows, with nothing in between, the successful operation
\* it is paired with, on the same volume or target
Follows(op, args) ==
    /\ last.err = NoErr
    /\ CASE op = "CreateVolume" ->
                /\ last.op = "VolumeExist"
                /\ ~last.ret
                /\ last.args.volumeId = args.volumeId
         [] op = "DeleteVolume" ->
                last.op = "DeleteVolume" /\ last.args.volumeId = args.volumeId
         [] op = "GetQuota" ->
                last.op = "SetQuota" /\ last.args.volumeId = args.volumeId
         [] op = "MountMfs" -> last.op = "MountMfs"
         [] op = "BindMount" ->
                last.op = "BindMount" /\ last.args.target = args.target
         [] OTHER -> FALSE

\* one operation of the handler: args are its arguments, env is what the host
\* and the tools did during the call, r is its outcome
Apply(op, args, env, r, ret) ==
    /\ fs' = r.w.fs
    /\ quota' = r.w.quota
    /\ mounts' = r.w.mounts
    /\ trace' = r.trace
    /\ last' = [op |-> op, args |-> args, env |-> env, ret |-> ret, err |-> r.err,
                follows |-> Follows(op, args)]
    /\ UNCHANGED <<mnt, ctor, input, calls>>

Constructed ==
    [op |-> "NewMfsHandler", args |-> ctor, env |-> [io |-> FALSE], ret |-> 0,
     err |-> NoErr, follows |-> FALSE]

(***************************************************************************)
(* Spec: the volume lifecycle on a mounted tree                            *)
(***************************************************************************)
Init ==
    /\ ctor = [name |-> HandlerName, num |-> <<>>]
    /\ mnt = NewHandler(ctor)
    /\ fs = Ancestors(PathJoin(<<mnt.hostMountPath, mnt.pluginDataPath>>))
    /\ quota = [q \in {} |-> 0]
    /\ mounts = {mnt.hostMountPath}
    /\ trace = <<>>
    /\ last = Constructed
    /\ calls = NoCalls
    /\ input = NoInput

CallVolumeExist ==
    \E v \in VolumeIds, io \in BOOLEAN :
        \E r \in {VolumeExist(World, v, io)} :
            Apply("VolumeExist", [volumeId |-> v], [io |-> io], r, r.ret)

CallCreateVolume ==
    \E v \in VolumeIds, size \in Sizes, io \in BOOLEAN, tc \in ToolCases :
        /\ (io \/ size <= 0) => tc = NoTool
        /\ \E r \in {CreateVolume(World, v, size, io, tc.fault, tc.round)} :
               Apply("CreateVolume", [volumeId |-> v, size |-> size],
                     [io |-> io, tool |-> tc], r, r.ret)

CallDeleteVolume ==
    \E v \in VolumeIds, io \in BOOLEAN :
        \E r \in {DeleteVolume(World, v, io)} :
            Apply("DeleteVolume", [volumeId |-> v], [io |-> io], r, r.ret)

CallGetQuota ==
    \E v \in VolumeIds, tc \in ToolCases :
        /\ ~tc.round
        /\ \E r \in {GetQuota(World, v, tc.fault)} :
               Apply("GetQuota", [volumeId |-> v], [io |-> FALSE, tool |-> tc], r, r.ret)

CallSetQuota ==
    \E v \in VolumeIds, size \in Sizes, tc \in ToolCases :
        /\ size <= 0 => tc = NoTool
        /\ \E r \in {SetQuota(World, v, size, tc.fault, tc.round)} :
               Apply("SetQuota", [volumeId |-> v, size |-> size],
                     [io |-> FALSE, tool |-> tc], r, r.ret)

CallCreateSnapshot ==
    \E v \in VolumeIds, snap \in VolumeIds, tc \in ToolCases, tc2 \in ToolCases :
        /\ ~tc.round /\ tc.fault \in {"none", "exit"} /\ ~tc2.round
        /\ tc.fault = "exit" => tc2 = NoTool
        /\ \E r \in {CreateSnapshot(World, v, snap, tc.fault, tc2.fault)} :
               Apply("CreateSnapshot", [volumeId |-> v, snapshotId |-> snap],
                     [io |-> FALSE, tool |-> tc, tool2 |-> tc2], r, r.ret)

Next ==
    \/ CallVolumeExist
    \/ CallCreateVolume
    \/ CallDeleteVolume
    \/ CallGetQuota
    \/ CallSetQuota
    \/ CallCreateSnapshot

Spec == Init /\ [][Next]_vars

(***************************************************************************)
(* Properties of the volume lifecycle (Spec)                               *)
(***************************************************************************)
WorldNext == [fs |-> fs', quota |-> quota', mounts |-> mounts']

\* C1: when CreateVolume(v, size) returns without error from a state in which
\* the host volume directory of v does not exist, VolumeExist(v) answers
\* false before the call and true right after it, whatever the size.
C1_CreateThenExists ==
    [][(/\ last'.op = "CreateVolume"
        /\ last'.err = NoErr
        /\ HostPathToVolume(last'.args.volumeId) \notin fs)
       => (/\ VolumeExist(World, last'.args.volumeId, FALSE).ret = FALSE
           /\ VolumeExist(World, last'.args.volumeId, FALSE).err = NoErr
           /\ VolumeExist(WorldNext, last'.args.volumeId, FALSE).ret = TRUE
           /\ VolumeExist(WorldNext, last'.args.volumeId, FALSE).err = NoErr)]_vars

\* C1 witness: VolumeExist(v) answered false, then CreateVolume(v, 12) returned
\* a confirmed limit, and the directory of v now exists.
C1_Witness ==
    /\ last.op = "CreateVolume"
    /\ last.follows
    /\ last.err = NoErr
    /\ last.args.size > 0
    /\ HostPathToVolume(last.args.volumeId) \in fs

\* C2: unless the host fails the removal, DeleteVolume(v) returns without
\* error whether or not the directory of v exists, and VolumeExist(v) is
\* false after it; so a second DeleteVolume(v) succeeds like the first.
C2_DeleteIdempotent ==
    [][(last'.op = "DeleteVolume" /\ ~last'.env.io)
       => (/\ last'.err = NoErr
           /\ VolumeExist(WorldNext, last'.args.volumeId, FALSE).ret = FALSE
           /\ VolumeExist(WorldNext, last'.args.volumeId, FALSE).err = NoErr)]_vars

\* C2 witness: a DeleteVolume(v) that follows a successful DeleteVolume(v)
\* has itself returned without error.
C2_Witness ==
    /\ last.op = "DeleteVolume"
    /\ last.follows
    /\ last.err = NoErr
    /\ HostPathToVolume(last.args.volumeId) \notin fs

\* C3: SetQuota(v, size) with size <= 0 returns the validation error, starts
\* no external process and leaves every stored quota as it was.
C3_NonPositiveRejected ==
    [][(last'.op = "SetQuota" /\ last'.args.size <= 0)
       => (/\ last'.err.kind = "validation"
           /\ last'.ret = 0
           /\ trace' = <<>>
           /\ quota' = quota
           /\ fs' = fs)]_vars

\* C3 witness: SetQuota(v, 0) was called on a volume that carries a quota.
C3_Witness ==
    /\ last.op = "SetQuota"
    /\ last.args.size = 0
    /\ last.err.kind = "validation"
    /\ HostPathToVolume(last.args.volumeId) \in DOMAIN quota

\* C4: when SetQuota(v, n) has succeeded and the next operation is GetQuota(v)
\* with the quota tool running normally, GetQuota(v) succeeds and returns the
\* confirmed limit SetQuota(v, n) returned; both address MfsPathToVolume(v).
C4_QuotaRoundTrip ==
    [][(/\ last.op = "SetQuota"
        /\ last.err = NoErr
        /\ last'.op = "GetQuota"
        /\ last'.args.volumeId = last.args.volumeId
        /\ last'.env.tool.fault = "none")
       => (/\ last'.err = NoErr
           /\ last'.ret = last.ret
           /\ trace'[1].args = <<trace[1].args[3]>>
           /\ trace'[1].dir = trace[1].dir)]_vars

\* C4 witness: GetQuota(v) right after a successful SetQuota(v, n) returned a
\* limit that the tool had rounded (it differs from every requested size).
C4_Witness ==
    /\ last.op = "GetQuota"
    /\ last.follows
    /\ last.err = NoErr
    /\ last.ret \notin Sizes

\* C8: CreateSnapshot(v, s) runs the snapshot tool with the arguments
\* [HostPathToVolume(v), HostPathToVolume(s)] and, when the tool succeeds,
\* queries the quota of s at the path GetQuota(s) addresses,
\* MfsPathToVolume(s), returning what GetQuota(s) returns.
C8_SnapshotReturnsQuotaOfSnapshot ==
    (last.op = "CreateSnapshot" /\ trace[1].err = "nil")
    => (/\ trace[1].cmd = createSnapshotCmd
        /\ trace[1].args = <<HostPathToVolume(last.args.volumeId),
                             HostPathToVolume(last.args.snapshotId)>>
        /\ Len(trace) = 2
        /\ trace[2].cmd = getQuotaCmd
        /\ trace[2].args = <<MfsPathToVolume(last.args.snapshotId)>>
        /\ last.ret = GetQuota(World, last.args.snapshotId, last.env.tool2.fault).ret)

\* C11: when the last external tool run by GetQuota, SetQuota or
\* CreateSnapshot fails, the operation returns a tool-invocation error that
\* carries the command, its arguments, the process error and the captured
\* output; the bare process error is never returned.
C11_ToolFailuresWrapped ==
    (/\ last.op \in {"GetQuota", "SetQuota", "CreateSnapshot"}
     /\ trace # <<>>
     /\ trace[Len(trace)].err # "nil")
    => (/\ last.err.kind = "tool"
        /\ last.err.cmd = trace[Len(trace)].cmd
        /\ last.err.args = trace[Len(trace)].args
        /\ last.err.cause = trace[Len(trace)].err
        /\ last.err.out = trace[Len(trace)].out)

\* C14: when the quota tool run by GetQuota(v) or SetQuota(v, n) exits with
\* status 0 and the limit parsed from its output is the sentinel -1, the
\* operation returns 0 and an error that names v; a GetQuota or SetQuota that
\* returns without error returns the parsed limit, which is not -1.
C14_SentinelIsAnError ==
    (last.op \in {"GetQuota", "SetQuota"} /\ trace # <<>> /\ trace[1].err = "nil")
    => (/\ parseMfsQuotaToolsOutput(trace[1].out) = [ret |-> -1, err |-> NoErr]
           => (/\ last.err # NoErr
               /\ last.err.kind = "quota_unset"
               /\ last.err.volumeId = last.args.volumeId
               /\ last.ret = 0)
        /\ last.err = NoErr
           => (/\ last.ret # -1
               /\ last.ret = parseMfsQuotaToolsOutput(trace[1].out).ret))

\* C14 witness: GetQuota(v) on an existing volume with no quota got the
\* report with "-" in the limit column and returned the error naming v.
C14_Witness ==
    /\ last.op = "GetQuota"
    /\ last.env.tool.fault = "none"
    /\ HostPathToVolume(last.args.volumeId) \in fs
    /\ trace[1].err = "nil"
    /\ last.err.kind = "quota_unset"
    /\ last.err.volumeId = last.args.volumeId

\* C15: when MkdirAll succeeds, CreateVolume(v, 0) has created the directory
\* of v and returns (0, no error) after that single call, with no quota tool
\* run and every stored quota as before; for a size other than 0 it then
\* does what SetQuota(v, size) does on the tree with the new directory and
\* returns SetQuota's limit and error.
C15_CreateVolumeQuotaStep ==
    [][(last'.op = "CreateVolume" /\ ~last'.env.io)
       => \E p \in {HostPathToVolume(last'.args.volumeId)} :
          \E made \in {[World EXCEPT !.fs = @ \cup Ancestors(p)]} :
          \E q \in {SetQuota(made, last'.args.volumeId, last'.args.size,
                             last'.env.tool.fault, last'.env.tool.round)} :
              /\ trace'[1] = [call |-> "MkdirAll", path |-> p, err |-> "nil"]
              /\ p \in fs'
              /\ last'.args.size = 0
                 => (/\ last'.ret = 0
                     /\ last'.err = NoErr
                     /\ Len(trace') = 1
                     /\ quota' = quota
                     /\ fs' = made.fs)
              /\ last'.args.size # 0
                 => (/\ last'.ret = q.ret
                     /\ last'.err = q.err
                     /\ SubSeq(trace', 2, Len(trace')) = q.trace
                     /\ WorldNext = q.w
                     /\ last'.err = NoErr
                        => (/\ Len(trace') = 2
                            /\ trace'[2].cmd = setQuotaCmd
                            /\ last'.ret = quota'[p]))]_vars

\* C15 witness: CreateVolume(v, 0) was called on a volume that already had a
\* quota; the quota is still there.
C15_Witness ==
    /\ last.op = "CreateVolume"
    /\ last.args.size = 0
    /\ last.err = NoErr
    /\ Len(trace) = 1
    /\ HostPathToVolume(last.args.volumeId) \in DOMAIN quota

\* C16: when MkdirAll succeeds and CreateVolume(v, size) returns an error, the
\* error is one of SetQuota(v, size) (validation, tool failure, parse error or
\* sentinel), the directory of v exists after the call and nothing was
\* removed: VolumeExist(v) is true after the failed call.
C16_NoRollback ==
    [][(last'.op = "CreateVolume" /\ ~last'.env.io /\ last'.err # NoErr)
       => (/\ last'.args.size # 0
           /\ last'.err.kind \in {"validation", "tool", "parse_rows", "parse_cols",
                                  "parse_num", "quota_unset"}
           /\ last'.ret = 0
           /\ fs' = fs \cup Ancestors(HostPathToVolume(last'.args.volumeId))
           /\ \E e \in {VolumeExist(WorldNext, last'.args.volumeId, FALSE)} :
                  e.ret = TRUE /\ e.err = NoErr)]_vars

\* C16 witness: VolumeExist(v) answered false, the CreateVolume(v, size) that
\* followed failed in its quota step, and the directory of v exists.
C16_Witness ==
    /\ last.op = "CreateVolume"
    /\ last.follows
    /\ ~last.env.io
    /\ last.err # NoErr
    /\ HostPathToVolume(last.args.volumeId) \in fs

\* the elements joined by "/" as they are, nothing resolved
Literal(elem) == JoinStr(elem, "/")

\* C12: the paths derived for the volume identifier of an operation are the
\* literal concatenations hostMountPath/pluginDataPath/volumes/id,
\* hostMountPath/pluginDataPath/mount_volumes/id and
\* pluginDataPath/volumes/id, a ".." in the identifier kept as it is; these
\* are the paths CreateVolume creates and the quota tools are given.
C12_LiteralPaths ==
    (last.op \in {"VolumeExist", "CreateVolume", "DeleteVolume", "GetQuota", "SetQuota"})
    => (/\ HostPathToVolume(last.args.volumeId)
              = Literal(<<mnt.hostMountPath, mnt.pluginDataPath, volumesDirName,
                          last.args.volumeId>>)
        /\ HostPathToMountVolume(last.args.volumeId)
              = Literal(<<mnt.hostMountPath, mnt.pluginDataPath, mountVolumesDirName,
                          last.args.volumeId>>)
        /\ MfsPathToVolume(last.args.volumeId)
              = Literal(<<mnt.pluginDataPath, volumesDirName, last.args.volumeId>>)
        /\ last.op \in {"VolumeExist", "CreateVolume", "DeleteVolume"}
              => trace[1].path = Literal(<<mnt.hostMountPath, mnt.pluginDataPath,
                                           volumesDirName, last.args.volumeId>>)
        /\ last.op = "GetQuota"
              => trace[1].args = << Literal(<<mnt.pluginDataPath, volumesDirName,
                                              last.args.volumeId>>) >>)

\* hostMountPath/pluginDataPath/volumes
VolumesDir == PathJoin(<<mnt.hostMountPath, mnt.pluginDataPath, volumesDirName>>)

\* q lies strictly beneath the volumes directory
InsideVolumes(q) == q # VolumesDir /\ IsUnder(q, VolumesDir)

\* C17: the path CreateVolume creates and the path DeleteVolume removes lie
\* strictly beneath hostMountPath/pluginDataPath/volumes, whatever the
\* volume identifier; everything a DeleteVolume(v) removes lies beneath the
\* volumes directory, so neither that directory, nor anything outside it,
\* disappears.
C17_StaysInsideVolumes ==
    [][(last'.op \in {"CreateVolume", "DeleteVolume"})
       => (/\ InsideVolumes(trace'[1].path)
           /\ last'.op = "DeleteVolume"
              => \A q \in fs \ fs' : InsideVolumes(q))]_vars

(***************************************************************************)
(* SpecMount: the mount operations, for every way of constructing the      *)
(* handler, on a mount table that may hold mounts of an earlier process    *)
(***************************************************************************)
\* the variadic num of NewMfsHandler: absent, an index pair, or ill-formed
NumArgs ==
    {<<>>, <<0, 1>>, <<0, 2>>, <<3, 5>>, <<12, 20>>, <<99, 100>>, <<100, 200>>, <<-1, 5>>,
     <<7>>}

BindTargets == {<<"/", "t">>, <<"/", "u">>}

BindSources == {volumesDirName}

BindOptions == {<<>>, <<"ro">>}

Leftover(h) == PathJoin(<<h, <<"x">> >>)

InitMount ==
    /\ ctor \in {[name |-> HandlerName, num |-> n] : n \in NumArgs}
    /\ mnt = NewHandler(ctor)
    /\ fs \in {Ancestors(mntDir), Ancestors(Leftover(mnt.hostMountPath))}
    /\ quota = [q \in {} |-> 0]
    /\ mounts \in {{}, {mnt.hostMountPath} \cup BindTargets}
    /\ trace = <<>>
    /\ last = Constructed
    /\ calls = NoCalls
    /\ input = NoInput

CallMountMfs ==
    \E failAt \in {"none", "IsMounted", "UMount", "RemoveAll", "Mount"} :
        \E r \in {MountMfs(World, failAt)} :
            Apply("MountMfs", [target |-> mnt.hostMountPath], [failAt |-> failAt], r, 0)

CallBindMount ==
    \E src \in BindSources, target \in BindTargets, options \in BindOptions,
       failAt \in {"none", "IsMounted", "Mount"} :
        \E r \in {BindMount(World, src, target, options, failAt)} :
            Apply("BindMount", [mfsSource |-> src, target |-> target, options |-> options],
                  [failAt |-> failAt], r, 0)

CallBindUMount ==
    \E target \in BindTargets, failAt \in {"none", "IsMounted", "UMount"} :
        \E r \in {BindUMount(World, target, failAt)} :
            Apply("BindUMount", [target |-> target], [failAt |-> failAt], r, 0)

NextMount ==
    \/ CallMountMfs
    \/ CallBindMount
    \/ CallBindUMount

SpecMount == InitMount /\ [][NextMount]_vars

(***************************************************************************)
(* Properties of the mount operations (SpecMount)                          *)
(***************************************************************************)
Calls(tr) == [i \in 1..Len(tr) |-> tr[i].call]

\* the mount source of the handlers the model builds: "mfs:9421:/"
ExpectedMountSource == MasterAddr \o <<":", "9", "4", "2", "1", ":">> \o RootPath

\* C5: a MountMfs call in which no step fails queries IsMounted on the host
\* mount path, unmounts it exactly when the answer is Mounted, then runs
\* RemoveAll on it, then issues one Mount onto it, in that order, and leaves
\* it Mounted; on a target found Mounted that is one UMount followed by one
\* Mount.  In every MountMfs call a Mount comes right after a RemoveAll.
C5_MountMfsRebuilds ==
    [][(last'.op = "MountMfs")
       => LET h   == mnt.hostMountPath
              was == h \in mounts
              tr  == trace'
              n   == Len(tr)
          IN  /\ \A i \in 1..n :
                    tr[i].call = "Mount"
                    => i = n /\ i > 1 /\ tr[i - 1] = [call |-> "RemoveAll", path |-> h,
                                                      err |-> "nil"]
              /\ last'.err = NoErr
                 => /\ Calls(tr) = IF was THEN <<"IsMounted", "UMount", "RemoveAll", "Mount">>
                                   ELSE <<"IsMounted", "RemoveAll", "Mount">>
                    /\ tr[1].target = h /\ tr[1].ret = was
                    /\ was => tr[2].target = h
                    /\ tr[n].target = h
                    /\ tr[n].source = ExpectedMountSource
                    /\ tr[n].fstype = "moosefs"
                    /\ tr[n].options = <<>>
                    /\ h \in mounts'
                    /\ Leftover(h) \notin fs']_vars

\* C5 witness: a second MountMfs right after a successful one has unmounted
\* and remounted the host mount path.
C5_Witness ==
    /\ last.op = "MountMfs"
    /\ last.follows
    /\ last.err = NoErr
    /\ Calls(trace) = <<"IsMounted", "UMount", "RemoveAll", "Mount">>
    /\ mnt.hostMountPath \in mounts

\* the external call c of a trace returned an error
Failed(c) == IF c.call = "RemoveAll" THEN c.err # "nil" ELSE c.err # NoErr

\* the error the handler returns for the failed call c
Returned(c) == IF c.call = "RemoveAll" THEN FsErr("RemoveAll", c.path, c.err) ELSE c.err

\* C13: in every MountMfs call each step is attempted at most once, a failed
\* step is the last one issued and its error is what the call returns: after
\* a failed IsMounted nothing else is issued and nothing changes, after a
\* failed UMount neither RemoveAll nor Mount is issued and the target stays
\* Mounted, after a failed RemoveAll no Mount is issued; a call that fails
\* after a successful UMount leaves the target Not-Mounted.
C13_MountMfsAborts ==
    [][(last'.op = "MountMfs")
       => LET h  == mnt.hostMountPath
              tr == trace'
              n  == Len(tr)
          IN  /\ \A i, j \in 1..n : tr[i].call = tr[j].call => i = j
              /\ \A i \in 1..n :
                    Failed(tr[i]) => i = n /\ last'.err = Returned(tr[i])
              /\ last'.err # NoErr => Failed(tr[n])
              /\ Failed(tr[1])
                    => Calls(tr) = <<"IsMounted">> /\ mounts' = mounts /\ fs' = fs
              /\ (n >= 2 /\ tr[2].call = "UMount" /\ Failed(tr[2]))
                    => /\ Calls(tr) = <<"IsMounted", "UMount">>
                       /\ h \in mounts /\ h \in mounts' /\ fs' = fs
              /\ (tr[n].call = "RemoveAll" /\ Failed(tr[n]))
                    => mounts' = mounts \ {h} /\ fs' = fs
              /\ (/\ last'.err # NoErr
                  /\ n >= 3
                  /\ tr[2].call = "UMount")
                    => h \in mounts /\ h \notin mounts']_vars

\* C13 witness: MountMfs found the host mount path Mounted, unmounted it, and
\* then failed at RemoveAll or Mount: the path is left Not-Mounted.
C13_Witness ==
    /\ last.op = "MountMfs"
    /\ last.err # NoErr
    /\ Len(trace) >= 3
    /\ Calls(trace)[2] = "UMount"
    /\ trace[2].err = NoErr
    /\ mnt.hostMountPath \notin mounts

\* C6: when IsMounted reports the target Not-Mounted, BindMount issues exactly
\* one Mount for it (the host path of the source, type moosefs, the caller's
\* options then "bind"); when it reports Mounted, BindMount issues no Mount,
\* leaves the mount table as it is and returns without error.
C6_BindMountIdempotent ==
    [][(last'.op = "BindMount" /\ last'.env.failAt # "IsMounted")
       => LET t  == last'.args.target
              tr == trace'
          IN  /\ tr[1] = [call |-> "IsMounted", target |-> t, ret |-> t \in mounts,
                          err |-> NoErr]
              /\ t \in mounts
                 => Len(tr) = 1 /\ mounts' = mounts /\ fs' = fs /\ last'.err = NoErr
              /\ t \notin mounts
                 => /\ Calls(tr) = <<"IsMounted", "Mount">>
                    /\ tr[2].target = t
                    /\ tr[2].source = mnt.hostMountPath \o <<"/">> \o last'.args.mfsSource
                    /\ tr[2].fstype = "moosefs"
                    /\ tr[2].options = last'.args.options \o <<"bind">>
                    /\ (last'.err = NoErr) = (tr[2].err = NoErr)
                    /\ last'.err = NoErr => mounts' = mounts \cup {t}]_vars

\* C6 witness: a second BindMount on the target a first one mounted found it
\* Mounted and issued no Mount.
C6_Witness ==
    /\ last.op = "BindMount"
    /\ last.follows
    /\ last.err = NoErr
    /\ Calls(trace) = <<"IsMounted">>
    /\ last.args.target \in mounts

\* C7: BindUMount issues UMount on the target exactly when IsMounted reports it
\* Mounted; on a Not-Mounted target it does nothing and returns without
\* error; after a BindUMount that returns without error the target is
\* Not-Mounted; no other target changes its mount state.
C7_BindUMountReconciles ==
    [][(last'.op = "BindUMount")
       => LET t  == last'.args.target
              tr == trace'
          IN  /\ \A u \in (mounts \cup mounts') \ {t} : u \in mounts /\ u \in mounts'
              /\ last'.err = NoErr => t \notin mounts'
              /\ last'.env.failAt # "IsMounted"
                 => /\ tr[1] = [call |-> "IsMounted", target |-> t, ret |-> t \in mounts,
                                err |-> NoErr]
                    /\ (t \in mounts) = (Len(tr) = 2)
                    /\ Len(tr) = 2 => tr[2].call = "UMount" /\ tr[2].target = t
                    /\ t \notin mounts
                       => Len(tr) = 1 /\ last'.err = NoErr /\ mounts' = mounts]_vars

\* C7 witness: BindUMount has unmounted its target and another target is
\* still mounted.
C7_Witness ==
    /\ last.op = "BindUMount"
    /\ last.err = NoErr
    /\ Calls(trace) = <<"IsMounted", "UMount">>
    /\ last.args.target \notin mounts
    /\ mounts \cap BindTargets # {}

\* the part of the host mount path after "/mnt/<name>"
PathSuffix == SubSeq(mnt.hostMountPath, Len(mntDir) + Len(ctor.name) + 2,
                     Len(mnt.hostMountPath))

HasBase == SubSeq(mnt.hostMountPath, 1, Len(mntDir) + Len(ctor.name) + 1)
               = mntDir \o <<"/">> \o ctor.name

AllDigits(d) == \A k \in 1..Len(d) : IsDigit(d[k])

IsPair == Len(ctor.num) = 2 /\ ctor.num # <<0, 1>>

\* C10 as claimed: no suffix without index arguments and for the pair (0, 1);
\* for every other pair (i, n) the suffix is "_" and i as two decimal digits;
\* no operation changes the path.
C10_TwoDigitSuffix ==
    /\ HasBase
    /\ (ctor.num = <<>> \/ ctor.num = <<0, 1>>) => PathSuffix = <<>>
    /\ IsPair => /\ Len(PathSuffix) = 3
                 /\ PathSuffix[1] = "_"
                 /\ AllDigits(Tail(PathSuffix))
                 /\ NatValue(Tail(PathSuffix), 0) = ctor.num[1]

\* C10 amended: no suffix without index arguments and for the pair (0, 1);
\* for every other pair (i, n) the suffix is "_" and i in decimal, padded
\* with zeros on the left to at least two characters: exactly two digits when
\* 0 <= i <= 99, the plain decimal when i >= 10, "-" and the plain decimal of
\* -i when i < 0; the path is this function of name and num in every state,
\* and no operation changes the handler.
C10_HostMountPath ==
    /\ [](/\ HasBase
          /\ (ctor.num = <<>> \/ ctor.num = <<0, 1>>) => PathSuffix = <<>>
          /\ (IsPair /\ ctor.num[1] >= 0)
             => /\ Len(PathSuffix) >= 3
                /\ PathSuffix[1] = "_"
                /\ AllDigits(Tail(PathSuffix))
                /\ NatValue(Tail(PathSuffix), 0) = ctor.num[1]
                /\ ctor.num[1] <= 99 => Len(PathSuffix) = 3
                /\ ctor.num[1] >= 10 => PathSuffix[2] # "0"
          /\ (IsPair /\ ctor.num[1] < 0)
             => /\ Len(PathSuffix) >= 3
                /\ PathSuffix[1] = "_" /\ PathSuffix[2] = "-" /\ PathSuffix[3] # "0"
                /\ AllDigits(Tail(Tail(PathSuffix)))
                /\ NatValue(Tail(Tail(PathSuffix)), 0) = -ctor.num[1])
    /\ [][mnt' = mnt /\ ctor' = ctor]_vars

\* C10 witness: a handler built with the pair (3, 5) has mounted /mnt/pvc1_03.
C10_Witness ==
    /\ ctor.num = <<3, 5>>
    /\ mnt.hostMountPath = mntDir \o <<"/">> \o HandlerName \o <<"_", "0", "3">>
    /\ last.op = "MountMfs"
    /\ mnt.hostMountPath \in mounts

(***************************************************************************)
(* SpecParse: parseMfsQuotaToolsOutput on tool outputs of every make-up    *)
(***************************************************************************)
MaxPre == 3
MaxFields == 6

\* texts for the limit field with what they denote: the "no limit" token, a
\* decimal int64, or neither
FieldSamples ==
    {[txt |-> <<"-">>, kind |-> "dash", val |-> 0],
     [txt |-> <<" ", "-", " ">>, kind |-> "dash", val |-> 0],
     [txt |-> <<"\t", "-">>, kind |-> "dash", val |-> 0],
     [txt |-> <<"1", "0", "7", "3", "7", "4", "1", "8", "2", "4">>, kind |-> "int",
      val |-> 1073741824],
     [txt |-> <<" ", " ", "1", "2", " ">>, kind |-> "int", val |-> 12],
     [txt |-> <<"0">>, kind |-> "int", val |-> 0],
     [txt |-> <<"0", "0", "7">>, kind |-> "int", val |-> 7],
     [txt |-> <<"+", "7">>, kind |-> "int", val |-> 7],
     [txt |-> <<"-", "5">>, kind |-> "int", val |-> -5],
     [txt |-> <<" ", "-", "1">>, kind |-> "int", val |-> -1],
     [txt |-> <<>>, kind |-> "bad", val |-> 0],
     [txt |-> <<" ", " ">>, kind |-> "bad", val |-> 0],
     [txt |-> <<"1", "a">>, kind |-> "bad", val |-> 0],
     [txt |-> <<"-", "-">>, kind |-> "bad", val |-> 0],
     [txt |-> <<"-", " ", "1">>, kind |-> "bad", val |-> 0],
     [txt |-> <<"1", " ", "2">>, kind |-> "bad", val |-> 0],
     [txt |-> <<"1", "_", "0">>, kind |-> "bad", val |-> 0],
     [txt |-> <<"1", ".", "5">>, kind |-> "bad", val |-> 0],
     [txt |-> <<"9", "2", "2", "3", "3", "7", "2", "0", "3", "6", "8", "5", "4", "7", "7",
                "5", "8", "0", "8">>, kind |-> "bad", val |-> 0]}

TailLine == <<"s", "|", "0", "|", "-", "|", "-", "|">>

HeaderLine == <<"q", ":">>

\* a data row of nf fields whose field at column 3, if it has one, is f
DataRow(nf, f) ==
    JoinStr([i \in 1..nf |-> IF i = quotaLimitCol + 1 THEN f ELSE <<"x">>], "|")

LineOf(kind, nf, f) ==
    CASE kind = "header" -> HeaderLine
      [] kind = "row" -> DataRow(nf, f)
      [] kind = "tail" -> TailLine
      [] kind = "empty" -> <<>>

\* pre header lines, the data row, post further rows, and maybe a final newline
MakeInput(pre, post, trail, nf, f) ==
    LET kinds == [i \in 1..pre |-> "header"] \o <<"row">> \o [i \in 1..post |-> "tail"]
                     \o (IF trail THEN <<"empty">> ELSE <<>>)
    IN  [text  |-> JoinStr([i \in 1..Len(kinds) |-> LineOf(kinds[i], nf, f.txt)], NL),
         kinds |-> kinds, nf |-> nf, field |-> f]

InitParse ==
    /\ ctor = [name |-> HandlerName, num |-> <<>>]
    /\ mnt = NewHandler(ctor)
    /\ fs = Ancestors(mnt.hostMountPath)
    /\ quota = [q \in {} |-> 0]
    /\ mounts = {}
    /\ trace = <<>>
    /\ last = Constructed
    /\ calls = NoCalls
    /\ input \in {MakeInput(pre, post, trail, nf, f) :
                     pre \in 0..MaxPre, post \in 0..1, trail \in BOOLEAN,
                     nf \in 1..MaxFields, f \in FieldSamples}

ParseOutput ==
    /\ last.op = "NewMfsHandler"
    /\ \E r \in {parseMfsQuotaToolsOutput(input.text)} :
          last' = [op |-> "parseMfsQuotaToolsOutput", args |-> [output |-> input.text],
                   env |-> [io |-> FALSE], ret |-> r.ret, err |-> r.err, follows |-> FALSE]
    /\ UNCHANGED <<mnt, ctor, fs, quota, mounts, trace, input, calls>>

NextParse == ParseOutput

SpecParse == InitParse /\ [][NextParse]_vars

\* what the make-up of the input says about line index 2: its number of
\* "|"-separated fields and the text at column 3
ThirdLineCols ==
    CASE input.kinds[3] = "row" -> input.nf
      [] input.kinds[3] = "tail" -> 5
      [] OTHER -> 1

ThirdLineField ==
    IF input.kinds[3] = "row" THEN input.field
    ELSE [txt |-> <<"-">>, kind |-> "dash", val |-> 0]

\* C9: the parser fails with the row-count error when the output has fewer
\* than 3 lines; else with the column-count error when line index 2 has fewer
\* than 5 fields; else returns -1 without error when the trimmed field at
\* column 3 is "-"; else returns the decimal value of that field, or a parse
\* error when the field is no signed 64-bit decimal integer.
C9_ParserContract ==
    last.op = "parseMfsQuotaToolsOutput"
    => IF Len(input.kinds) < 3
       THEN last.err.kind = "parse_rows" /\ last.ret = 0
       ELSE IF ThirdLineCols < 5
       THEN last.err.kind = "parse_cols" /\ last.ret = 0
       ELSE CASE ThirdLineField.kind = "dash" -> last.ret = -1 /\ last.err = NoErr
              [] ThirdLineField.kind = "int" ->
                    last.ret = ThirdLineField.val /\ last.err = NoErr
              [] ThirdLineField.kind = "bad" ->
                    last.err.kind = "parse_num" /\ last.ret = 0

\* C9 witness: the report of two header lines and the row
\* x|x|x|1073741824|x has been parsed to 1073741824.
C9_Witness ==
    /\ last.op = "parseMfsQuotaToolsOutput"
    /\ input.kinds = <<"header", "header", "row">>
    /\ input.nf = 5
    /\ last.ret = 1073741824
    /\ last.err = NoErr

(***************************************************************************)
(* SpecRace: BindMount called by concurrent callers.  The method holds no  *)
(* lock, so the statements of the callers interleave; trace is here the    *)
(* log of all mounter calls since the start, each with its caller.         *)
(***************************************************************************)
\* calls of BindMount begun in one run
MaxCalls == 2

Begun ==
    Cardinality({i \in DOMAIN trace : trace[i].call = "IsMounted"})
        + Cardinality({p \in Callers : calls[p].pc = "query"})

InitRace ==
    /\ ctor = [name |-> HandlerName, num |-> <<>>]
    /\ mnt = NewHandler(ctor)
    /\ fs = Ancestors(HostPathTo(volumesDirName))
    /\ quota = [q \in {} |-> 0]
    /\ mounts \in {{mnt.hostMountPath} \cup m : m \in SUBSET BindTargets}
    /\ trace = <<>>
    /\ last = Constructed
    /\ input = NoInput
    /\ calls = NoCalls

\* a caller enters BindMount(mfsSource, target, options...)
RaceBegin ==
    \E p \in Callers, src \in BindSources, target \in BindTargets, options \in BindOptions,
       failAt \in {"none", "IsMounted", "Mount"} :
        /\ calls[p].pc = "idle"
        /\ Begun < MaxCalls
        /\ calls' = [calls EXCEPT ![p] = [pc |-> "query", mfsSource |-> src,
                                          target |-> target, options |-> options,
                                          failAt |-> failAt, err |-> NoErr]]
        /\ UNCHANGED <<mnt, ctor, fs, quota, mounts, trace, last, input>>

\* a caller runs mounter.IsMounted(target)
RaceQuery ==
    \E p \in Callers :
        /\ calls[p].pc = "query"
        /\ \E r \in {BindMountQuery(World, calls[p])} :
              /\ calls' = [calls EXCEPT ![p] = r.c]
              /\ trace' = Append(trace, [by |-> p] @@ r.call)
        /\ UNCHANGED <<mnt, ctor, fs, quota, mounts, last, input>>

\* a caller runs mounter.Mount(source, target, fsType, options..., "bind")
RaceMount ==
    \E p \in Callers :
        /\ calls[p].pc = "mount"
        /\ \E r \in {BindMountMount(World, calls[p])} :
              /\ calls' = [calls EXCEPT ![p] = r.c]
              /\ trace' = Append(trace, [by |-> p] @@ r.call)
              /\ fs' = r.w.fs
              /\ quota' = r.w.quota
              /\ mounts' = r.w.mounts
        /\ UNCHANGED <<mnt, ctor, last, input>>

NextRace ==
    \/ RaceBegin
    \/ RaceQuery
    \/ RaceMount

SpecRace == InitRace /\ [][NextRace]_vars

(***************************************************************************)
(* Properties of concurrent BindMount (SpecRace)                           *)
(***************************************************************************)
\* C18: BindMount decides on the answer of its own IsMounted query and then
\* issues Mount without looking at the mount table again: a caller goes on
\* to Mount exactly when its query answered Not-Mounted, and a caller that
\* is before its Mount issues it for its target whether or not another
\* caller has mounted the target in the meantime.
C18_CheckThenMount ==
    [][\A p \in Callers :
          /\ (calls[p].pc = "query" /\ calls'[p] # calls[p])
             => (/\ trace' = Append(trace, trace'[Len(trace')])
                 /\ trace'[Len(trace')].call = "IsMounted"
                 /\ trace'[Len(trace')].by = p
                 /\ trace'[Len(trace')].target = calls[p].target
                 /\ mounts' = mounts
                 /\ calls'[p].pc = "mount"
                    <=> (calls[p].failAt # "IsMounted" /\ calls[p].target \notin mounts))
          /\ (calls[p].pc = "mount" /\ calls'[p] # calls[p])
             => (/\ trace' = Append(trace, trace'[Len(trace')])
                 /\ trace'[Len(trace')].call = "Mount"
                 /\ trace'[Len(trace')].by = p
                 /\ trace'[Len(trace')].target = calls[p].target
                 /\ trace'[Len(trace')].source = HostPathTo(calls[p].mfsSource)
                 /\ trace'[Len(trace')].options = Append(calls[p].options, "bind")
                 /\ calls'[p].pc = "idle"
                 /\ calls'[p].err = trace'[Len(trace')].err)]_vars

\* C18 witness: two callers both asked about the same target, both were
\* answered Not-Mounted, and both then issued a successful Mount for it.
C18_Witness ==
    /\ Len(trace) = 4
    /\ trace[1].call = "IsMounted" /\ trace[2].call = "IsMounted"
    /\ trace[1].by # trace[2].by
    /\ trace[1].target = trace[2].target
    /\ trace[1].err = NoErr /\ ~trace[1].ret
    /\ trace[2].err = NoErr /\ ~trace[2].ret
    /\ trace[3].call = "Mount" /\ trace[4].call = "Mount"
    /\ trace[3].by # trace[4].by
    /\ trace[3].target = trace[1].target /\ trace[4].target = trace[1].target
    /\ trace[3].err = NoErr /\ trace[4].err = NoErr

====
